---- MODULE Spec2Model ----
(***************************************************************************)
(* Provisioning fixtures of robottelo (pytest_fixtures/component/          *)
(* provision_pxe.py) as state machines:                                    *)
(*   - module_provisioning_rhel_content  (the content pipeline)            *)
(*   - module_provisioning_sat           (the network provisioner)         *)
(*   - provisioning_host / provision_multiple_hosts (ephemeral hosts)      *)
(* Each fixture has its own specification; the variables of the other      *)
(* fixtures stay at their initial values under it.                         *)
(***************************************************************************)
EXTENDS Integers, Sequences, FiniteSets, TLC

VARIABLES
    \* ---- module_provisioning_rhel_content ----
    rhel_ver,           \* request.param['rhel_version']: [val, str]
    provisioning_type,  \* module_provisioning_sat.provisioning_type
    operatingsystems,   \* remote: the OperatingSystem objects that exist
    cpc,                \* position of the fixture body
    repo_names,         \* line 38
    nameIdx,            \* index of the `for name in repo_names` loop
    enabled,            \* calls of enable_rhrepo_and_fetchid, in order
    rh_repo_id,         \* line 46, kept across loop iterations
    rh_repos,           \* line 44
    tasks,              \* line 45: ids of the sync tasks issued
    remote_tasks,       \* remote: task id -> [repo, result]
    cv_repository,      \* content_view.repository (local object)
    cv_saved,           \* remote: repository association persisted by update()
    taskIdx,            \* index of the `for task in tasks` loop
    polls,              \* polls made by the current wait
    inspected,          \* task ids whose result was read by line 97
    rhel_xy,            \* line 99
    os,                 \* line 108
    ksrepo,             \* line 110
    publish,            \* id of the publish task (0: not issued)
    cv_reread,          \* lines 118-120 executed
    ak,                 \* activation key created (lines 121-125)
    bundle,             \* the returned Box (line 127)
    error,              \* the exception that ended the fixture
    \* ---- module_provisioning_sat ----
    broker_data_out,    \* data_out of the provisioning_sat workflow (line 157)
    npc,                \* position of the fixture body
    provisioning_network,       \* line 159: [network_address, netmask, broadcast]
    provisioning_upstream_dns,  \* broker_data_out.provisioning_upstream_dns, popped
    dns_primary,        \* lines 162-164
    dns_secondary,      \* lines 165-169
    domain,             \* the Domain created (lines 171-176)
    subnet,             \* the Subnet created (lines 178-198)
    nerror,             \* the exception that ended the fixture
    \* ---- provisioning_host / provision_multiple_hosts ----
    fixture,            \* "single" (provisioning_host) or "multi"
    count,              \* _count of the checkout (line 245); 1 for "single"
    hpc,                \* position of the fixture generator
    blank,              \* host -> its blank attribute: "true", "false", "absent"
    checked_out,        \* hosts the broker has checked out
    releases,           \* host -> number of check-ins
    dhcp_restarts,      \* number of `systemctl restart dhcpd` executed
    test_outcome,       \* "", "passed" or "raised"
    herror,             \* the exception that left the fixture
    \* ---- pxeless_discovery_host ----
    discovery,          \* the test requests pxeless_discovery_host
    dpc,                \* position of the discovery fixture's generator
    remaster_result,    \* result of the remaster command: [status, stdout]
    fdi,                \* filename extracted from the output
    image_imports,      \* import-disk-image workflows that succeeded
    image_removals,     \* remove-disk-image workflows that succeeded
    boot,               \* boot scenario of the checked-out host
    dsteps,             \* preparation steps started, in order
    derror,             \* the exception that left the discovery fixture
    \* ---- provisioning_hostgroup ----
    gpc,                \* position of the fixture: idle, pending, created, ...
    hostgroup,          \* the HostGroup the remote side holds
    gerror              \* the exception that left the fixture

cvars == <<rhel_ver, provisioning_type, operatingsystems, cpc, repo_names, nameIdx,
           enabled, rh_repo_id, rh_repos, tasks, remote_tasks, cv_repository,
           cv_saved, taskIdx, polls, inspected, rhel_xy, os, ksrepo, publish,
           cv_reread, ak, bundle, error>>

nvars == <<broker_data_out, npc, provisioning_network, provisioning_upstream_dns,
           dns_primary, dns_secondary, domain, subnet, nerror>>

dvars == <<discovery, dpc, remaster_result, fdi, image_imports, image_removals, boot,
           dsteps, derror>>

hvars == <<fixture, count, hpc, blank, checked_out, releases, dhcp_restarts,
           test_outcome, herror, dvars>>

gvars == <<gpc, hostgroup, gerror>>

vars == <<cvars, nvars, hvars, gvars>>

(***************************************************************************)
(* Bounds and program constants                                            *)
(***************************************************************************)
\* polls a sync wait makes before poll_timeout (2500 s, line 95) elapses
MaxSyncPolls == 1
\* max_tries of the publish wait
max_tries == 10
\* width of an address in bits (32 for IPv4)
AddrBits == 3
\* longest list of upstream DNS addresses the broker supplies
MaxDns == 3
\* largest _count of a multi-host checkout
MaxCount == 3
\* most words in the output of the remaster command
MaxWords == 2

\* rhel_version parameters: the major as a number or as a string
RhelVals == {6, 7, 8, 9}
RhelVersions == [val : RhelVals, str : BOOLEAN]
ProvisioningTypes == {"", "discovery"}

NoError == [type |-> "", task |-> 0, repo |-> ""]
NoBundle == [os |-> "", ak |-> "", ksrepo |-> "", cv |-> ""]
NoVersion == [major |-> 0, minor |-> 0]

(***************************************************************************)
(* Pure helpers of module_provisioning_rhel_content                        *)
(***************************************************************************)
\* f'rhel{rhel_ver}...'
RhelName(v, suffix) == "rhel" \o ToString(v.val) \o suffix

\* RepoNames with the version test off by one (`< 7`)
RepoNames_offByOne(v) ==
    IF v.val < 7
    THEN <<RhelName(v, "")>>
    ELSE <<RhelName(v, "_bos"), RhelName(v, "_aps")>>

\* lines 38-43
RepoNames(v) ==
    IF v.val <= 7
    THEN <<RhelName(v, "")>>
    ELSE <<RhelName(v, "_bos"), RhelName(v, "_aps")>>

\* constants.REPOS['kickstart']: name -> version (major, minor)
REPOS_kickstart ==
    [k \in {"rhel6", "rhel7", "rhel8_bos", "rhel8_aps", "rhel9_bos", "rhel9_aps"} |->
        CASE k = "rhel6" -> [major |-> 6, minor |-> 10]
          [] k = "rhel7" -> [major |-> 7, minor |-> 9]
          [] k \in {"rhel8_bos", "rhel8_aps"} -> [major |-> 8, minor |-> 10]
          [] OTHER -> [major |-> 9, minor |-> 6]]

\* sat.api_factory.enable_rhrepo_and_fetchid: the id of the enabled repository
enable_rhrepo_and_fetchid(kind, name) ==
    IF kind = "kickstart" THEN "ks_" \o name ELSE name

\* line 61 with the client repo left out of the content view
InitialRepository_empty(client_repo) == <<>>

\* line 61: content_view.repository = [client_repo]
InitialRepository(client_repo) == <<client_repo>>

\* `if repo_id:` (line 85)
Truthy(repo_id) == repo_id # ""

\* lines 72-81 without the discovery test: the content repo is always enabled
ContentRepoId_always(ptype, name, old) == enable_rhrepo_and_fetchid("content", name)

\* lines 72-81: the content repo id after the discovery test of one iteration
ContentRepoId(ptype, name, old) ==
    IF ptype # "discovery" THEN enable_rhrepo_and_fetchid("content", name) ELSE old

\* line 84-85: the repo ids of one iteration that get synced
IdsToSync(ks_id, content_id) ==
    SelectSeq(<<ks_id, content_id>>, Truthy)

\* the key of line 100-102
KickstartVersionKey(v) ==
    IF v.val = 7 /\ ~v.str THEN RhelName(v, "") ELSE RhelName(v, "_bos")

\* the search of lines 104-106 without the minor
SearchOS_majorOnly(oses, xy) == {o \in oses : o.major = xy.major}

\* the search of lines 104-106
SearchOS(oses, xy) == {o \in oses : o.major = xy.major /\ o.minor = xy.minor}

Terminal(result) == result \in {"success", "failure"}

\* line 98 without the comparison: any polled result passes
SyncAsserted_any(result) == TRUE

\* line 98: assert task_status['result'] == 'success'
SyncAsserted(result) == result = "success"

\* line 117 without the comparison: any result of the publish task passes
PublishAsserted_any(result) == TRUE

\* line 117: assert task_status[0].result == 'success'
PublishAsserted(result) == result = "success"

(***************************************************************************)
(* module_provisioning_rhel_content: the content pipeline                  *)
(***************************************************************************)
ContentFresh ==
    /\ repo_names = <<>>
    /\ nameIdx = 0
    /\ enabled = <<>>
    /\ rh_repo_id = ""
    /\ rh_repos = <<>>
    /\ tasks = <<>>
    /\ remote_tasks = <<>>
    /\ cv_repository = <<>>
    /\ cv_saved = <<>>
    /\ taskIdx = 0
    /\ polls = 0
    /\ inspected = {}
    /\ rhel_xy = NoVersion
    /\ os = ""
    /\ ksrepo = ""
    /\ publish = 0
    /\ cv_reread = FALSE
    /\ ak = ""
    /\ bundle = NoBundle
    /\ error = NoError

AllOS == {REPOS_kickstart[k] : k \in DOMAIN REPOS_kickstart}

\* operating systems of the same majors with another minor
OtherMinorOS == {[major |-> o.major, minor |-> 0] : o \in AllOS}

\* the fixture is requested with a version and a flavor; the remote side holds
\* every operating system, every one but one, or only ones of another minor
InitContent ==
    /\ rhel_ver \in RhelVersions
    /\ provisioning_type \in ProvisioningTypes
    /\ operatingsystems \in
          {AllOS \ {o} : o \in AllOS \cup {NoVersion}} \cup {OtherMinorOS}
    /\ cpc = "start"
    /\ ContentFresh

\* the fixture is not requested
IdleContent ==
    /\ rhel_ver = [val |-> 9, str |-> FALSE]
    /\ provisioning_type = ""
    /\ operatingsystems = AllOS
    /\ cpc = "idle"
    /\ ContentFresh

\* the remote side accepts a task for each repo of `repos` (sync(synchronous=False))
IssueTasks(remote, repos) ==
    remote \o [i \in 1..Len(repos) |-> [repo |-> repos[i], result |-> "pending"]]

\* the ids the remote side gave to the tasks issued for `repos`
IssuedIds(remote, repos) == [i \in 1..Len(repos) |-> Len(remote) + i]

\* an exception leaves the fixture body: nothing in lines 36-127 catches it
Raise(e) ==
    /\ error' = e
    /\ cpc' = "aborted"

\* lines 36-61: repo names, content view, custom product, client repo and its sync
CreateContentView ==
    /\ cpc = "start"
    /\ repo_names' = RepoNames(rhel_ver)
    /\ rh_repos' = <<>>
    /\ rh_repo_id' = ""
    /\ remote_tasks' = IssueTasks(remote_tasks, <<"client">>)
    /\ tasks' = IssuedIds(remote_tasks, <<"client">>)
    /\ cv_repository' = InitialRepository("client")
    /\ nameIdx' = 1
    /\ cpc' = "enable"
    /\ UNCHANGED <<rhel_ver, provisioning_type, operatingsystems, enabled, cv_saved,
                   taskIdx, polls, inspected, rhel_xy, os, ksrepo, publish,
                   cv_reread, ak, bundle, error>>
    /\ UNCHANGED <<nvars, hvars, gvars>>

\* line 63: the loop over repo_names is over
EnableLoopDone(idx, names) == idx >= Len(names)

\* lines 63-91: one iteration of `for name in repo_names`
EnableAndSyncRepos ==
    /\ cpc = "enable"
    /\ LET name == repo_names[nameIdx]
           ks_id == enable_rhrepo_and_fetchid("kickstart", name)
           content_id == ContentRepoId(provisioning_type, name, rh_repo_id)
           ids == IdsToSync(ks_id, content_id)
       IN  /\ enabled' = enabled
                 \o <<[kind |-> "kickstart", name |-> name]>>
                 \o (IF provisioning_type # "discovery"
                     THEN <<[kind |-> "content", name |-> name]>> ELSE <<>>)
           /\ rh_repo_id' = content_id
           /\ remote_tasks' = IssueTasks(remote_tasks, ids)
           /\ tasks' = tasks \o IssuedIds(remote_tasks, ids)
           /\ rh_repos' = rh_repos \o ids
           /\ cv_repository' = cv_repository \o ids
           /\ cv_saved' = IF ids # <<>> THEN cv_repository \o ids ELSE cv_saved
    /\ IF EnableLoopDone(nameIdx, repo_names)
       THEN /\ cpc' = "wait"
            /\ taskIdx' = 1
            /\ polls' = 0
            /\ UNCHANGED nameIdx
       ELSE /\ nameIdx' = nameIdx + 1
            /\ UNCHANGED <<cpc, taskIdx, polls>>
    /\ UNCHANGED <<rhel_ver, provisioning_type, operatingsystems, repo_names,
                   inspected, rhel_xy, os, ksrepo, publish, cv_reread, ak, bundle,
                   error>>
    /\ UNCHANGED <<nvars, hvars, gvars>>

\* the remote side finishes a task, with either result, whatever the fixture does
TaskFinish(t, r) ==
    /\ t \in DOMAIN remote_tasks
    /\ remote_tasks[t].result = "pending"
    /\ remote_tasks' = [remote_tasks EXCEPT ![t].result = r]
    /\ UNCHANGED <<rhel_ver, provisioning_type, operatingsystems, cpc, repo_names,
                   nameIdx, enabled, rh_repo_id, rh_repos, tasks, cv_repository,
                   cv_saved, taskIdx, polls, inspected, rhel_xy, os, ksrepo,
                   publish, cv_reread, ak, bundle, error>>
    /\ UNCHANGED <<nvars, hvars, gvars>>

cframe == <<rhel_ver, provisioning_type, operatingsystems, repo_names, nameIdx,
            enabled, rh_repo_id, rh_repos, tasks, remote_tasks, cv_repository,
            cv_saved>>

\* lines 93-96: the wait raised; the exception leaves the fixture
SyncWaitRaises(e) == Raise(e)

\* sat.wait_for_tasks: the task is not terminal yet, the bound is not reached
WaitPoll(bound, t) ==
    /\ ~Terminal(remote_tasks[t].result)
    /\ polls < bound
    /\ polls' = polls + 1

\* sat.wait_for_tasks: the bound is reached with the task not terminal
WaitTimedOut(bound, t) ==
    /\ ~Terminal(remote_tasks[t].result)
    /\ polls >= bound

\* lines 93-96, one poll of the wait on tasks[taskIdx]
WaitForSyncTaskPoll ==
    /\ cpc = "wait"
    /\ WaitPoll(MaxSyncPolls, tasks[taskIdx])
    /\ UNCHANGED <<cframe, cpc, taskIdx, inspected, rhel_xy, os, ksrepo, publish,
                   cv_reread, ak, bundle, error>>
    /\ UNCHANGED <<nvars, hvars, gvars>>

\* lines 93-96, the wait returns: the task is terminal
WaitForSyncTaskReturn ==
    /\ cpc = "wait"
    /\ Terminal(remote_tasks[tasks[taskIdx]].result)
    /\ cpc' = "poll"
    /\ UNCHANGED <<cframe, taskIdx, polls, inspected, rhel_xy, os, ksrepo, publish,
                   cv_reread, ak, bundle, error>>
    /\ UNCHANGED <<nvars, hvars, gvars>>

\* lines 93-96, the wait ends in Timeout
WaitForSyncTaskTimeout ==
    /\ cpc = "wait"
    /\ WaitTimedOut(MaxSyncPolls, tasks[taskIdx])
    /\ SyncWaitRaises([type |-> "Timeout", task |-> tasks[taskIdx], repo |-> ""])
    /\ UNCHANGED <<cframe, taskIdx, polls, inspected, rhel_xy, os, ksrepo, publish,
                   cv_reread, ak, bundle>>
    /\ UNCHANGED <<nvars, hvars, gvars>>

\* lines 93-96, the wait ends in TaskFailed (the waiter may check the result itself)
WaitForSyncTaskFailed ==
    /\ cpc = "wait"
    /\ remote_tasks[tasks[taskIdx]].result = "failure"
    /\ SyncWaitRaises([type |-> "TaskFailed", task |-> tasks[taskIdx], repo |-> ""])
    /\ UNCHANGED <<cframe, taskIdx, polls, inspected, rhel_xy, os, ksrepo, publish,
                   cv_reread, ak, bundle>>
    /\ UNCHANGED <<nvars, hvars, gvars>>

\* the loop over tasks left after its first task
SyncLoopDone_first(idx, ts) == idx >= 1

\* line 92: the loop over tasks is over
SyncLoopDone(idx, ts) == idx >= Len(ts)

\* lines 97-98: read the task's result and assert it
PollAndAssertSync ==
    /\ cpc = "poll"
    /\ inspected' = inspected \cup {tasks[taskIdx]}
    /\ IF SyncAsserted(remote_tasks[tasks[taskIdx]].result)
       THEN /\ IF SyncLoopDone(taskIdx, tasks)
               THEN cpc' = "resolve" /\ UNCHANGED taskIdx
               ELSE cpc' = "wait" /\ taskIdx' = taskIdx + 1
            /\ polls' = 0
            /\ UNCHANGED error
       ELSE /\ Raise([type |-> "AssertionError", task |-> 0, repo |-> ""])
            /\ UNCHANGED <<taskIdx, polls>>
    /\ UNCHANGED <<cframe, rhel_xy, os, ksrepo, publish, cv_reread, ak, bundle>>
    /\ UNCHANGED <<nvars, hvars, gvars>>

\* lines 99-110: kickstart version, operating system, kickstart repo
ResolveOperatingSystem ==
    /\ cpc = "resolve"
    /\ LET key == KickstartVersionKey(rhel_ver)
       IN  IF key \notin DOMAIN REPOS_kickstart
           THEN /\ Raise([type |-> "KeyError", task |-> 0, repo |-> key])
                /\ UNCHANGED <<rhel_xy, os, ksrepo>>
           ELSE /\ rhel_xy' = REPOS_kickstart[key]
                /\ IF SearchOS(operatingsystems, REPOS_kickstart[key]) = {}
                   THEN /\ Raise([type |-> "AssertionError", task |-> 0,
                                  repo |-> "Operating system was not found"])
                        /\ UNCHANGED <<os, ksrepo>>
                   ELSE /\ os' = "RedHat " \o ToString(REPOS_kickstart[key].major)
                        /\ ksrepo' = rh_repos[1]
                        /\ cpc' = "publish"
                        /\ UNCHANGED error
    /\ UNCHANGED <<cframe, taskIdx, polls, inspected, publish, cv_reread, ak, bundle>>
    /\ UNCHANGED <<nvars, hvars, gvars>>

\* line 111: content_view.publish()
PublishContentView ==
    /\ cpc = "publish"
    /\ remote_tasks' = IssueTasks(remote_tasks, <<"publish">>)
    /\ publish' = Len(remote_tasks) + 1
    /\ polls' = 0
    /\ cpc' = "waitpub"
    /\ UNCHANGED <<rhel_ver, provisioning_type, operatingsystems, repo_names, nameIdx,
                   enabled, rh_repo_id, rh_repos, tasks, cv_repository, cv_saved,
                   taskIdx, inspected, rhel_xy, os, ksrepo, cv_reread, ak, bundle,
                   error>>
    /\ UNCHANGED <<nvars, hvars, gvars>>

\* lines 112-116 with the wait's exception swallowed: the body goes on
PublishWaitRaises_swallowed(e) ==
    /\ error' = e
    /\ cpc' = "reread"

\* lines 112-116: the wait raised; the exception leaves the fixture
PublishWaitRaises(e) == Raise(e)

\* lines 112-116, one poll of the wait on the publish task
WaitForPublishPoll ==
    /\ cpc = "waitpub"
    /\ WaitPoll(max_tries, publish)
    /\ UNCHANGED <<cframe, cpc, taskIdx, inspected, rhel_xy, os, ksrepo, publish,
                   cv_reread, ak, bundle, error>>
    /\ UNCHANGED <<nvars, hvars, gvars>>

\* lines 112-116, the wait ends in Timeout
WaitForPublishTimeout ==
    /\ cpc = "waitpub"
    /\ WaitTimedOut(max_tries, publish)
    /\ PublishWaitRaises([type |-> "Timeout", task |-> publish, repo |-> ""])
    /\ UNCHANGED <<cframe, taskIdx, polls, inspected, rhel_xy, os, ksrepo, publish,
                   cv_reread, ak, bundle>>
    /\ UNCHANGED <<nvars, hvars, gvars>>

\* lines 112-116, the wait ends in TaskFailed
WaitForPublishFailed ==
    /\ cpc = "waitpub"
    /\ remote_tasks[publish].result = "failure"
    /\ PublishWaitRaises([type |-> "TaskFailed", task |-> publish, repo |-> ""])
    /\ UNCHANGED <<cframe, taskIdx, polls, inspected, rhel_xy, os, ksrepo, publish,
                   cv_reread, ak, bundle>>
    /\ UNCHANGED <<nvars, hvars, gvars>>

\* lines 112-117: the wait returns the terminal task and its result is asserted
WaitForPublishReturn ==
    /\ cpc = "waitpub"
    /\ Terminal(remote_tasks[publish].result)
    /\ IF PublishAsserted(remote_tasks[publish].result)
       THEN cpc' = "reread" /\ UNCHANGED error
       ELSE Raise([type |-> "AssertionError", task |-> 0, repo |-> ""])
    /\ UNCHANGED <<cframe, taskIdx, polls, inspected, rhel_xy, os, ksrepo, publish,
                   cv_reread, ak, bundle>>
    /\ UNCHANGED <<nvars, hvars, gvars>>

\* lines 118-120: the content view is searched by name
RereadContentView ==
    /\ cpc = "reread"
    /\ cv_reread' = TRUE
    /\ cpc' = "ak"
    /\ UNCHANGED <<cframe, taskIdx, polls, inspected, rhel_xy, os, ksrepo, publish,
                   ak, bundle, error>>
    /\ UNCHANGED <<nvars, hvars, gvars>>

\* lines 121-127: the activation key and the returned Box
CreateActivationKey ==
    /\ cpc = "ak"
    /\ ak' = "ak"
    /\ bundle' = [os |-> os, ak |-> "ak", ksrepo |-> ksrepo, cv |-> "cv"]
    /\ cpc' = "done"
    /\ UNCHANGED <<cframe, taskIdx, polls, inspected, rhel_xy, os, ksrepo, publish,
                   cv_reread, error>>
    /\ UNCHANGED <<nvars, hvars, gvars>>

NextContent ==
    \/ CreateContentView
    \/ EnableAndSyncRepos
    \/ \E t \in DOMAIN remote_tasks, r \in {"success", "failure"} : TaskFinish(t, r)
    \/ WaitForSyncTaskPoll
    \/ WaitForSyncTaskReturn
    \/ WaitForSyncTaskTimeout
    \/ WaitForSyncTaskFailed
    \/ PollAndAssertSync
    \/ ResolveOperatingSystem
    \/ PublishContentView
    \/ WaitForPublishPoll
    \/ WaitForPublishTimeout
    \/ WaitForPublishFailed
    \/ WaitForPublishReturn
    \/ RereadContentView
    \/ CreateActivationKey

(***************************************************************************)
(* module_provisioning_sat: the network provisioner                        *)
(***************************************************************************)
Pow2(n) == 2 ^ n
Addrs == 0..(Pow2(AddrBits) - 1)

\* Python's None
None == 0
\* module_provisioning_capsule.id
CapsuleId == 1
\* the id the remote side gives the created Domain
DomainId == 2
NoNetwork == [network_address |-> 0, netmask |-> 0, broadcast_address |-> 0]
NoDomain == [id |-> 0, dns |-> 0]
NoSubnet == [network |-> 0, mask |-> 0, gateway |-> 0, from |-> 0, to |-> 0,
             dns_primary |-> None, dns_secondary |-> None,
             dhcp |-> 0, tftp |-> 0, template |-> 0, dns |-> 0, httpboot |-> 0,
             discovery |-> 0, remote_execution_proxy |-> <<>>, domain |-> <<>>]
NoNetError == [type |-> ""]

\* the upstream DNS lists the broker supplies: n distinct addresses, 0 <= n <= MaxDns
DnsLists == {[i \in 1..n |-> 100 + i] : n \in 0..MaxDns}

\* data_out of the workflow: an interface address with its prefix length (a
\* length above AddrBits does not parse), a gateway, a host range, DNS addresses
BrokerOutputs ==
    [provisioning_addr_ipv4 : [addr : Addrs, prefixlen : 0..(AddrBits + 1)],
     provisioning_gw_ipv4 : {1},
     provisioning_host_range_start : Addrs,
     provisioning_host_range_end : Addrs,
     provisioning_upstream_dns : DnsLists]

\* ipaddress.ip_interface accepts the descriptor
ValidInterface(a) == a.addr \in Addrs /\ a.prefixlen \in 0..AddrBits

\* ipaddress.ip_interface(a).network (lines 158-159)
InterfaceNetwork(a) ==
    LET hostsize == Pow2(AddrBits - a.prefixlen)
        net == a.addr - (a.addr % hostsize)
    IN  [network_address |-> net,
         netmask |-> Pow2(AddrBits) - hostsize,
         broadcast_address |-> net + hostsize - 1]

\* list.pop(): the last element and the rest
PopValue(l) == l[Len(l)]
PopRest(l) == SubSeq(l, 1, Len(l) - 1)

\* lines 167: a secondary is popped if addresses are left after the first pop
HasSecondary_offByOne(rest) == Len(rest) > 1

\* line 167: a secondary is popped if addresses are left after the first pop
HasSecondary(rest) == Len(rest) # 0

NetFresh ==
    /\ provisioning_network = NoNetwork
    /\ dns_primary = None
    /\ dns_secondary = None
    /\ domain = NoDomain
    /\ subnet = NoSubnet
    /\ nerror = NoNetError

InitNet ==
    /\ broker_data_out \in BrokerOutputs
    /\ provisioning_upstream_dns = broker_data_out.provisioning_upstream_dns
    /\ npc = "start"
    /\ NetFresh

\* the fixture is not requested
IdleNet ==
    /\ broker_data_out =
          [provisioning_addr_ipv4 |-> [addr |-> 0, prefixlen |-> 0],
           provisioning_gw_ipv4 |-> 1,
           provisioning_host_range_start |-> 0,
           provisioning_host_range_end |-> 0,
           provisioning_upstream_dns |-> <<>>]
    /\ provisioning_upstream_dns = <<>>
    /\ npc = "idle"
    /\ NetFresh

\* an exception leaves the fixture body: nothing in lines 144-200 catches it
NetRaise(t) ==
    /\ nerror' = [type |-> t]
    /\ npc' = "aborted"

\* lines 157-169 with the exception swallowed: the body goes on to the Domain
ParseRaises_swallowed(t) ==
    /\ nerror' = [type |-> t]
    /\ npc' = "domain"

\* lines 157-169: ip_interface or pop() raised; the exception leaves the fixture
\* before line 171
ParseRaises(t) == NetRaise(t)

\* lines 157-169: parse the interface, pop the upstream DNS addresses
ParseBrokerOutput ==
    /\ npc = "start"
    /\ IF ~ValidInterface(broker_data_out.provisioning_addr_ipv4)
       THEN /\ ParseRaises("ValueError")
            /\ UNCHANGED <<provisioning_network, provisioning_upstream_dns,
                           dns_primary, dns_secondary>>
       ELSE /\ provisioning_network' =
                   InterfaceNetwork(broker_data_out.provisioning_addr_ipv4)
            /\ IF provisioning_upstream_dns = <<>>
               THEN /\ ParseRaises("IndexError")
                    /\ UNCHANGED <<provisioning_upstream_dns, dns_primary,
                                   dns_secondary>>
               ELSE LET rest == PopRest(provisioning_upstream_dns)
                    IN  /\ dns_primary' = PopValue(provisioning_upstream_dns)
                        /\ dns_secondary' =
                              IF HasSecondary(rest) THEN PopValue(rest) ELSE None
                        /\ provisioning_upstream_dns' =
                              IF HasSecondary(rest) THEN PopRest(rest) ELSE rest
                        /\ npc' = "domain"
                        /\ UNCHANGED nerror
    /\ UNCHANGED <<broker_data_out, domain, subnet>>
    /\ UNCHANGED <<cvars, hvars, gvars>>

\* line 197 with the Subnet bound to no domain
SubnetDomains_none(d) == <<>>

\* line 197: domain=[domain.id]
SubnetDomains(d) == <<d.id>>

\* lines 171-176: the Domain is created, or the remote side refuses it
CreateDomain(ok) ==
    /\ npc = "domain"
    /\ IF ok
       THEN /\ domain' = [id |-> DomainId, dns |-> CapsuleId]
            /\ npc' = "subnet"
            /\ UNCHANGED nerror
       ELSE /\ NetRaise("HTTPError")
            /\ UNCHANGED domain
    /\ UNCHANGED <<broker_data_out, provisioning_network, provisioning_upstream_dns,
                   dns_primary, dns_secondary, subnet>>
    /\ UNCHANGED <<cvars, hvars, gvars>>

\* lines 178-200: the Subnet is created, or the remote side refuses it
CreateSubnet(ok) ==
    /\ npc = "subnet"
    /\ IF ok
       THEN /\ subnet' =
                 [network |-> provisioning_network.network_address,
                  mask |-> provisioning_network.netmask,
                  gateway |-> broker_data_out.provisioning_gw_ipv4,
                  from |-> broker_data_out.provisioning_host_range_start,
                  to |-> broker_data_out.provisioning_host_range_end,
                  dns_primary |-> dns_primary,
                  dns_secondary |-> dns_secondary,
                  dhcp |-> CapsuleId,
                  tftp |-> CapsuleId,
                  template |-> CapsuleId,
                  dns |-> CapsuleId,
                  httpboot |-> CapsuleId,
                  discovery |-> CapsuleId,
                  remote_execution_proxy |-> <<CapsuleId>>,
                  domain |-> SubnetDomains(domain)]
            /\ npc' = "done"
            /\ UNCHANGED nerror
       ELSE /\ NetRaise("HTTPError")
            /\ UNCHANGED subnet
    /\ UNCHANGED <<broker_data_out, provisioning_network, provisioning_upstream_dns,
                   dns_primary, dns_secondary, domain>>
    /\ UNCHANGED <<cvars, hvars, gvars>>

NextNet ==
    \/ ParseBrokerOutput
    \/ \E ok \in BOOLEAN : CreateDomain(ok)
    \/ \E ok \in BOOLEAN : CreateSubnet(ok)

(***************************************************************************)
(* provisioning_host and provision_multiple_hosts: ephemeral hosts         *)
(***************************************************************************)
Hosts == 1..count
NoHostError == [type |-> ""]
NoResult == [status |-> 0, stdout |-> <<>>]
NoDiscoveryError == [type |-> "", step |-> ""]

HostFresh ==
    /\ blank = <<>>
    /\ checked_out = {}
    /\ releases = <<>>
    /\ dhcp_restarts = 0
    /\ test_outcome = ""
    /\ herror = NoHostError
    /\ remaster_result = NoResult
    /\ fdi = ""
    /\ image_imports = 0
    /\ image_removals = 0
    /\ boot = "pxe"
    /\ dsteps = <<>>
    /\ derror = NoDiscoveryError

\* a test requests provisioning_host (alone or through pxeless_discovery_host),
\* or provision_multiple_hosts with a count
InitHost ==
    /\ \/ fixture = "single" /\ count = 1 /\ discovery \in BOOLEAN
       \/ fixture = "multi" /\ count \in 1..MaxCount /\ discovery = FALSE
    /\ hpc = "setup"
    /\ dpc = IF discovery THEN "remaster" ELSE "none"
    /\ HostFresh

\* no test requests a host
IdleHost ==
    /\ fixture = "single"
    /\ count = 1
    /\ hpc = "idle"
    /\ discovery = FALSE
    /\ dpc = "none"
    /\ HostFresh

\* the flag set to False whatever the host holds
GetBlank_reset(b) == "false"

\* getattr(prov_host, 'blank', False) (lines 232, 256)
GetBlank(b) == IF b = "absent" THEN "false" ELSE b

\* leaving the `with Broker(...)` block without its __exit__ when the body raised
WithExit_noFinally(raised) == IF raised THEN "ended" ELSE "exit"

\* lines 219-232, 242-256: leaving the `with Broker(...)` block, by its end or
\* by an exception, runs the Broker's __exit__
WithExit(raised) == "exit"

\* line 231 made conditional on the host having been configured
RestartsDhcp_ifConfigured(fx, b) == fx = "single" /\ b = "false"

\* line 231: provisioning_host restarts dhcpd, provision_multiple_hosts does not
RestartsDhcp(fx, b) == fx = "single"

\* the test body runs once every fixture it requests has yielded (line 342)
Yielded(d) == d \in {"none", "yielded"}

\* teardown in any order
DependentTornDown_any(d) == TRUE

\* line 314: pxeless_discovery_host requests provisioning_host, so its code
\* after the yield (line 343) runs before that of provisioning_host (230-232)
DependentTornDown(d) == d # "yielded"

\* lines 219-228, 242-252: Broker.__enter__ checks the hosts out, all blank
Checkout ==
    /\ hpc = "setup"
    /\ blank' = [h \in Hosts |-> "true"]
    /\ checked_out' = Hosts
    /\ releases' = [h \in Hosts |-> 0]
    /\ hpc' = "test"
    /\ UNCHANGED <<fixture, count, dhcp_restarts, test_outcome, herror>>
    /\ UNCHANGED <<cvars, nvars, dvars, gvars>>

\* lines 219-228, 242-252: the checkout fails, no host is handed out
CheckoutFails ==
    /\ hpc = "setup"
    /\ herror' = [type |-> "BrokerError"]
    /\ hpc' = "ended"
    /\ UNCHANGED <<fixture, count, blank, checked_out, releases, dhcp_restarts,
                   test_outcome>>
    /\ UNCHANGED <<cvars, nvars, dvars, gvars>>

\* lines 229, 253 (yield): the test sets, or deletes, a host's blank flag
TestSetsBlank(h, b) ==
    /\ hpc = "test"
    /\ Yielded(dpc)
    /\ h \in Hosts
    /\ blank[h] # b
    /\ blank' = [blank EXCEPT ![h] = b]
    /\ UNCHANGED <<fixture, count, hpc, checked_out, releases, dhcp_restarts,
                   test_outcome, herror>>
    /\ UNCHANGED <<cvars, nvars, dvars, gvars>>

\* lines 229, 253 (yield): the test ends; pytest resumes the generator whether
\* the test passed or raised
TestEnds(outcome) ==
    /\ hpc = "test"
    /\ Yielded(dpc)
    /\ test_outcome' = outcome
    /\ hpc' = "teardown"
    /\ UNCHANGED <<fixture, count, blank, checked_out, releases, dhcp_restarts,
                   herror>>
    /\ UNCHANGED <<cvars, nvars, dvars, gvars>>

\* lines 230-232 (single), 255-256 (multi): the code after the yield
PostYield(status) ==
    /\ hpc = "teardown"
    /\ DependentTornDown(dpc)
    /\ IF RestartsDhcp(fixture, blank[1])
       THEN /\ dhcp_restarts' = dhcp_restarts + 1
            /\ IF status = 0
               THEN /\ blank' = [h \in Hosts |-> GetBlank(blank[h])]
                    /\ hpc' = WithExit(FALSE)
                    /\ UNCHANGED herror
               ELSE /\ herror' = [type |-> "AssertionError"]
                    /\ hpc' = WithExit(TRUE)
                    /\ UNCHANGED blank
       ELSE /\ status = 0
            /\ blank' = [h \in Hosts |-> GetBlank(blank[h])]
            /\ hpc' = WithExit(FALSE)
            /\ UNCHANGED <<dhcp_restarts, herror>>
    /\ UNCHANGED <<fixture, count, checked_out, releases, test_outcome>>
    /\ UNCHANGED <<cvars, nvars, dvars, gvars>>

\* Broker.__exit__ at the end of the with block: every host is checked in
BrokerExit ==
    /\ hpc = "exit"
    /\ releases' = [h \in Hosts |-> releases[h] + (IF h \in checked_out THEN 1 ELSE 0)]
    /\ checked_out' = {}
    /\ hpc' = "ended"
    /\ UNCHANGED <<fixture, count, blank, dhcp_restarts, test_outcome, herror>>
    /\ UNCHANGED <<cvars, nvars, dvars, gvars>>

(***************************************************************************)
(* pxeless_discovery_host: discovery image for the checked-out host        *)
(***************************************************************************)
\* a word of the command output: the stem foreman-discovery-image or another
\* text, directly followed by non-blank characters or by nothing
Suffixes == {"", "-a.iso", "-b.iso"}
Words == [stem : BOOLEAN, suffix : Suffixes]
Outputs == UNION {[1..n -> Words] : n \in 0..MaxWords}

\* the pattern without its \S+
Matches_stemOnly(w) == w.stem

\* line 325: r"foreman-discovery-image\S+" needs one non-blank character or
\* more after the stem
Matches(w) == w.stem /\ w.suffix # ""

MatchText(w) == "foreman-discovery-image" \o w.suffix

\* line 326: pattern.findall(result.stdout), the matches in order
RECURSIVE findall(_)
findall(s) ==
    IF s = <<>> THEN <<>>
    ELSE (IF Matches(Head(s)) THEN <<MatchText(Head(s))>> ELSE <<>>)
             \o findall(Tail(s))

\* a step of the preparation raises: the fixture never yields, the test is
\* not run and pytest tears down the fixtures that were set up
DiscoveryRaise(step, type) ==
    /\ derror' = [type |-> type, step |-> step]
    /\ dpc' = "failed"
    /\ hpc' = "teardown"
    /\ test_outcome' = "error"

dframe == <<fixture, count, blank, checked_out, releases, dhcp_restarts, herror,
            discovery>>

\* lines 320-324: sat.execute of discovery-remaster; its status is not read
Remaster(ok, res) ==
    /\ hpc = "test"
    /\ dpc = "remaster"
    /\ dsteps' = Append(dsteps, "remaster")
    /\ IF ok
       THEN /\ remaster_result' = res
            /\ dpc' = "extract"
            /\ UNCHANGED <<hpc, test_outcome, derror>>
       ELSE /\ DiscoveryRaise("remaster", "Exception")
            /\ UNCHANGED remaster_result
    /\ UNCHANGED <<fdi, image_imports, image_removals, boot>>
    /\ UNCHANGED dframe
    /\ UNCHANGED <<cvars, nvars, gvars>>

\* line 326: fdi = pattern.findall(result.stdout)[0]
ExtractFilename ==
    /\ hpc = "test"
    /\ dpc = "extract"
    /\ dsteps' = Append(dsteps, "extract")
    /\ IF findall(remaster_result.stdout) = <<>>
       THEN /\ DiscoveryRaise("extract", "IndexError")
            /\ UNCHANGED fdi
       ELSE /\ fdi' = findall(remaster_result.stdout)[1]
            /\ dpc' = "import"
            /\ UNCHANGED <<hpc, test_outcome, derror>>
    /\ UNCHANGED <<remaster_result, image_imports, image_removals, boot>>
    /\ UNCHANGED dframe
    /\ UNCHANGED <<cvars, nvars, gvars>>

\* lines 327-332: Broker(workflow='import-disk-image', ...).execute()
ImportDiskImage(ok) ==
    /\ hpc = "test"
    /\ dpc = "import"
    /\ dsteps' = Append(dsteps, "import")
    /\ IF ok
       THEN /\ image_imports' = image_imports + 1
            /\ dpc' = "configure"
            /\ UNCHANGED <<hpc, test_outcome, derror>>
       ELSE /\ DiscoveryRaise("import", "BrokerError")
            /\ UNCHANGED image_imports
    /\ UNCHANGED <<remaster_result, fdi, image_removals, boot>>
    /\ UNCHANGED dframe
    /\ UNCHANGED <<cvars, nvars, gvars>>

\* lines 334-342: Broker(job_template='configure-pxe-boot', ...).execute(),
\* then the yield
ConfigurePxeBoot(ok) ==
    /\ hpc = "test"
    /\ dpc = "configure"
    /\ dsteps' = Append(dsteps, "configure")
    /\ IF ok
       THEN /\ boot' = "pxeless_pre"
            /\ dpc' = "yielded"
            /\ UNCHANGED <<hpc, test_outcome, derror>>
       ELSE /\ DiscoveryRaise("configure", "BrokerError")
            /\ UNCHANGED boot
    /\ UNCHANGED <<remaster_result, fdi, image_imports, image_removals>>
    /\ UNCHANGED dframe
    /\ UNCHANGED <<cvars, nvars, gvars>>

\* line 343: Broker(workflow='remove-disk-image', ...).execute(), after the
\* test ended
RemoveDiskImage(ok) ==
    /\ hpc = "teardown"
    /\ dpc = "yielded"
    /\ dpc' = "done"
    /\ IF ok
       THEN /\ image_removals' = image_removals + 1
            /\ UNCHANGED derror
       ELSE /\ derror' = [type |-> "BrokerError", step |-> "remove"]
            /\ UNCHANGED image_removals
    /\ UNCHANGED <<hpc, test_outcome, remaster_result, fdi, image_imports, boot, dsteps>>
    /\ UNCHANGED dframe
    /\ UNCHANGED <<cvars, nvars, gvars>>

NextHost ==
    \/ Checkout
    \/ CheckoutFails
    \/ \E h \in 1..MaxCount, b \in {"true", "false", "absent"} : TestSetsBlank(h, b)
    \/ \E outcome \in {"passed", "raised"} : TestEnds(outcome)
    \/ \E status \in {0, 1} : PostYield(status)
    \/ BrokerExit
    \/ \E ok \in BOOLEAN, st \in {0, 1}, out \in Outputs :
           Remaster(ok, [status |-> st, stdout |-> out])
    \/ ExtractFilename
    \/ \E ok \in BOOLEAN : ImportDiskImage(ok)
    \/ \E ok \in BOOLEAN : ConfigurePxeBoot(ok)
    \/ \E ok \in BOOLEAN : RemoveDiskImage(ok)

(***************************************************************************)
(* provisioning_hostgroup: the host group over network and content         *)
(***************************************************************************)
NoHostGroup == [id |-> None]
NoGroupError == [type |-> ""]

\* lines 303-308: PXE_LOADER_MAP
PXE_LOADER_MAP ==
    [bios |-> [vm_firmware |-> "bios", pxe_loader |-> "PXELinux BIOS"],
     uefi |-> [vm_firmware |-> "uefi", pxe_loader |-> "Grub2 UEFI"],
     ipxe |-> [vm_firmware |-> "bios", pxe_loader |-> "iPXE Embedded"],
     http_uefi |-> [vm_firmware |-> "uefi", pxe_loader |-> "Grub2 UEFI HTTP"]]

\* the fixture is not requested
IdleGroup ==
    /\ gpc = "idle"
    /\ hostgroup = NoHostGroup
    /\ gerror = NoGroupError

\* network descriptors for a host group: valid or with a prefix too long, with
\* one upstream DNS address or none
GroupBrokerOutputs ==
    {b \in BrokerOutputs :
        /\ b.provisioning_addr_ipv4.addr = 0
        /\ b.provisioning_addr_ipv4.prefixlen >= AddrBits
        /\ b.provisioning_host_range_start = 0
        /\ b.provisioning_host_range_end = 0
        /\ Len(b.provisioning_upstream_dns) <= 1}

\* a test requests provisioning_hostgroup: module_provisioning_sat is set up
\* first, module_provisioning_rhel_content, which requests it, waits for it
InitGroup ==
    /\ broker_data_out \in GroupBrokerOutputs
    /\ provisioning_upstream_dns = broker_data_out.provisioning_upstream_dns
    /\ npc = "start"
    /\ NetFresh
    /\ rhel_ver \in RhelVersions
    /\ provisioning_type \in ProvisioningTypes
    /\ operatingsystems \in
          {AllOS \ {o} : o \in AllOS \cup {NoVersion}} \cup {OtherMinorOS}
    /\ cpc = "idle"
    /\ ContentFresh
    /\ gpc = "pending"
    /\ hostgroup = NoHostGroup
    /\ gerror = NoGroupError

\* lines 25-30: module_provisioning_rhel_content requests
\* module_provisioning_sat and runs once that fixture returned
RequestContent ==
    /\ gpc = "pending"
    /\ npc = "done"
    /\ cpc = "idle"
    /\ cpc' = "start"
    /\ UNCHANGED <<cframe, taskIdx, polls, inspected, rhel_xy, os, ksrepo, publish,
                   cv_reread, ak, bundle, error>>
    /\ UNCHANGED <<nvars, hvars, gvars>>

\* the fixture body run as soon as the network is there
DependenciesReady_netOnly(n, c) == n = "done"

\* lines 260-270: the fixture requests module_provisioning_sat and
\* module_provisioning_rhel_content; its body runs once both returned
DependenciesReady(n, c) == n = "done" /\ c = "done"

\* lines 285-297: group_parameters_attributes
GroupParameters(ssh_key_pub, ak_name) ==
    <<[name |-> "remote_execution_ssh_keys", parameter_type |-> "string",
       value |-> ssh_key_pub],
      [name |-> "kt_activation_keys", parameter_type |-> "string",
       value |-> ak_name]>>

\* lines 271-298: HostGroup(...).create(), or the remote side refuses it
CreateHostGroup(ok, loader) ==
    /\ gpc = "pending"
    /\ DependenciesReady(npc, cpc)
    /\ IF ok
       THEN /\ hostgroup' =
                 [domain |-> domain,
                  subnet |-> subnet,
                  content_source |-> CapsuleId,
                  content_view |-> bundle.cv,
                  kickstart_repository |-> bundle.ksrepo,
                  operatingsystem |-> bundle.os,
                  pxe_loader |-> PXE_LOADER_MAP[loader].pxe_loader,
                  group_parameters_attributes |->
                      GroupParameters("host_ssh_key_pub", bundle.ak)]
            /\ gpc' = "created"
            /\ UNCHANGED gerror
       ELSE /\ gerror' = [type |-> "HTTPError"]
            /\ gpc' = "failed"
            /\ UNCHANGED hostgroup
    /\ UNCHANGED <<cvars, nvars, hvars>>

\* lines 260-270: a fixture it requests raised, the fixture body is not run
DependencyFailed ==
    /\ gpc = "pending"
    /\ npc = "aborted" \/ cpc = "aborted"
    /\ gpc' = "skipped"
    /\ UNCHANGED <<hostgroup, gerror>>
    /\ UNCHANGED <<cvars, nvars, hvars>>

NextGroup ==
    \/ NextNet
    \/ RequestContent
    \/ NextContent
    \/ \E ok \in BOOLEAN, loader \in DOMAIN PXE_LOADER_MAP : CreateHostGroup(ok, loader)
    \/ DependencyFailed

(***************************************************************************)
(* Specifications: one fixture runs, the others are not requested; the     *)
(* host group runs over the network and the content                        *)
(***************************************************************************)
InitSpecContent == InitContent /\ IdleNet /\ IdleHost /\ IdleGroup
SpecContent == InitSpecContent /\ [][NextContent]_vars

InitSpecNet == InitNet /\ IdleContent /\ IdleHost /\ IdleGroup
SpecNet == InitSpecNet /\ [][NextNet]_vars

InitSpecHost == InitHost /\ IdleContent /\ IdleNet /\ IdleGroup
SpecHost == InitSpecHost /\ [][NextHost]_vars

InitSpecGroup == InitGroup /\ IdleHost
SpecGroup == InitSpecGroup /\ [][NextGroup]_vars

(***************************************************************************)
(* Properties of the content pipeline                                      *)
(***************************************************************************)
SyncTaskIds == {tasks[i] : i \in 1..Len(tasks)}

\* the fixture aborted while waiting on or asserting a sync task
AbortedInSyncStage ==
    /\ cpc = "aborted"
    /\ publish = 0
    /\ rhel_xy = NoVersion
    /\ error.type \in {"AssertionError", "TaskFailed", "Timeout"}

\* C2: if any issued sync task ended with a result other than success, the
\* publish task is never issued and no activation key is created.
C2_NoPublishAfterFailedSync ==
    (\E t \in SyncTaskIds : remote_tasks[t].result = "failure")
        => publish = 0 /\ ak = "" /\ cpc # "done"

\* a sync task other than the first failed, was polled, and the fixture aborted
C2_Witness ==
    /\ cpc = "aborted"
    /\ error.type = "AssertionError"
    /\ taskIdx > 1
    /\ remote_tasks[tasks[taskIdx]].result = "failure"
    /\ tasks[taskIdx] \in inspected
    /\ publish = 0

\* C3: publish is issued only after every issued sync task is terminal; the
\* content view is re-read, and the activation key created from it, only after
\* the publish task is terminal.
C3_PublishAfterSyncRereadAfterPublish ==
    /\ publish # 0 => \A t \in SyncTaskIds : Terminal(remote_tasks[t].result)
    /\ cv_reread => publish # 0 /\ Terminal(remote_tasks[publish].result)
    /\ ak # "" => cv_reread

\* the pipeline ran to its end in the non-discovery flavor of a version > 7
C3_Witness ==
    /\ cpc = "done"
    /\ Len(tasks) = 5
    /\ cv_reread
    /\ ak # ""

KickstartEnabled == SelectSeq(enabled, LAMBDA e : e.kind = "kickstart")

\* C5: one vendor kickstart repo rhel<ver> is enabled for versions <= 7, two for
\* versions > 7 (rhel<ver>_bos then rhel<ver>_aps), and the returned kickstart
\* repository is the first vendor repository registered.
C5_KickstartReposAndFirstReturned ==
    /\ cpc \notin {"start", "enable"} =>
          IF rhel_ver.val <= 7
          THEN KickstartEnabled =
                 <<[kind |-> "kickstart", name |-> "rhel" \o ToString(rhel_ver.val)]>>
          ELSE KickstartEnabled =
                 <<[kind |-> "kickstart",
                    name |-> "rhel" \o ToString(rhel_ver.val) \o "_bos"],
                   [kind |-> "kickstart",
                    name |-> "rhel" \o ToString(rhel_ver.val) \o "_aps"]>>
    /\ cpc = "done" =>
          /\ bundle.ksrepo = cv_saved[2]
          /\ bundle.ksrepo = "ks_" \o KickstartEnabled[1].name

\* a bundle of version 9 in the discovery flavor returns the BaseOS kickstart repo
C5_Witness ==
    /\ cpc = "done"
    /\ rhel_ver.val = 9
    /\ provisioning_type = "discovery"
    /\ bundle.ksrepo = "ks_rhel9_bos"

\* C6: a wait whose task is still not terminal at its bound ends in Timeout
\* (and a Timeout is raised only for a task that is not terminal), the fixture
\* aborts, and no later step runs: no publish after a sync wait timed out, no
\* re-read and no activation key after any wait timed out.
C6_TimeoutAborts ==
    /\ [](error.type = "Timeout" =>
            /\ cpc = "aborted"
            /\ ~cv_reread
            /\ ak = ""
            /\ bundle = NoBundle
            /\ (error.task \in SyncTaskIds => publish = 0))
    /\ [][(error.type # "Timeout" /\ error'.type = "Timeout")
          => /\ ~Terminal(remote_tasks[error'.task].result)
             /\ error'.task = (IF cpc = "wait" THEN tasks[taskIdx] ELSE publish)
             /\ polls >= (IF cpc = "wait" THEN MaxSyncPolls ELSE max_tries)]_vars
    /\ [][(/\ cpc = "wait"
           /\ polls >= MaxSyncPolls
           /\ ~Terminal(remote_tasks[tasks[taskIdx]].result)
           /\ remote_tasks' = remote_tasks)
          => error'.type = "Timeout" /\ error'.task = tasks[taskIdx]]_vars
    /\ [][(/\ cpc = "waitpub"
           /\ polls >= max_tries
           /\ ~Terminal(remote_tasks[publish].result)
           /\ remote_tasks' = remote_tasks)
          => error'.type = "Timeout" /\ error'.task = publish]_vars

\* the publish wait timed out after max_tries polls
C6_Witness ==
    /\ error.type = "Timeout"
    /\ publish # 0
    /\ error.task = publish
    /\ polls = max_tries

\* C7 (as claimed): a failed sync aborts with ContentSyncFailed naming the repo
C7_SyncFailureNamesRepository ==
    (/\ AbortedInSyncStage
     /\ error.type # "Timeout"
     /\ remote_tasks[tasks[taskIdx]].result = "failure")
        => /\ error.type = "ContentSyncFailed"
           /\ error.repo = remote_tasks[tasks[taskIdx]].repo

\* C10 (as claimed): when construction aborts because of a sync task, the result
\* of every issued sync task has been inspected
C10_EveryTaskInspectedBeforeAbort ==
    AbortedInSyncStage => \A t \in SyncTaskIds : t \in inspected

(***************************************************************************)
(* Properties of the ephemeral host fixtures                               *)
(***************************************************************************)
\* C1: every host checked out is checked in exactly once on every exit path:
\* never before the scope is left, never twice, and none stays checked out
\* after the scope ended (test passed, test raised, DHCP restart failed).
C1_ReleasedExactlyOnce ==
    /\ \A h \in DOMAIN releases : releases[h] <= 1
    /\ hpc \in {"test", "teardown", "exit"} =>
          /\ checked_out = Hosts
          /\ \A h \in Hosts : releases[h] = 0
    /\ hpc = "ended" =>
          /\ checked_out = {}
          /\ \A h \in DOMAIN releases : releases[h] = 1
          /\ herror.type # "BrokerError" => DOMAIN releases = Hosts

\* the single host is released although the test raised and the restart failed
C1_Witness ==
    /\ hpc = "ended"
    /\ fixture = "single"
    /\ test_outcome = "raised"
    /\ herror.type = "AssertionError"
    /\ releases = <<1>>

\* C4: a single-host acquisition restarts DHCP exactly once, after the test
\* ended and before the host is released, whatever the host's blank flag; a
\* multi-host acquisition never restarts it.
C4_DhcpRestartOncePerSingleHost ==
    /\ fixture = "multi" => dhcp_restarts = 0
    /\ dhcp_restarts <= 1
    /\ dhcp_restarts = 1 => test_outcome # ""
    /\ (fixture = "single" /\ hpc \in {"setup", "test", "teardown"}) => dhcp_restarts = 0
    /\ (fixture = "single" /\ hpc = "exit") =>
          dhcp_restarts = 1 /\ releases = <<0>> /\ checked_out = {1}
    /\ (fixture = "single" /\ releases = <<1>>) => dhcp_restarts = 1

\* a host that never left the blank state: DHCP was restarted, then it was released
C4_Witness ==
    /\ fixture = "single"
    /\ hpc = "ended"
    /\ blank = <<"true">>
    /\ dhcp_restarts = 1
    /\ releases = <<1>>

(***************************************************************************)
(* Properties of the network provisioner                                   *)
(***************************************************************************)
SuppliedDns == broker_data_out.provisioning_upstream_dns

\* C8: with at least one upstream DNS address supplied, the Subnet's primary
\* DNS is one of the supplied addresses, its secondary DNS is absent exactly
\* when one address was supplied, otherwise it is the address of another
\* position of the list, and at most two addresses are consumed.
C8_SubnetDns ==
    (subnet # NoSubnet /\ Len(SuppliedDns) >= 1) =>
        /\ \E i \in 1..Len(SuppliedDns) : subnet.dns_primary = SuppliedDns[i]
        /\ subnet.dns_secondary = None <=> Len(SuppliedDns) = 1
        /\ Len(SuppliedDns) >= 2 =>
              \E i, j \in 1..Len(SuppliedDns) :
                  /\ i # j
                  /\ subnet.dns_primary = SuppliedDns[i]
                  /\ subnet.dns_secondary = SuppliedDns[j]
        /\ Len(SuppliedDns) - Len(provisioning_upstream_dns) <= 2
        /\ provisioning_upstream_dns =
              SubSeq(SuppliedDns, 1, Len(provisioning_upstream_dns))

\* a Subnet created from a single upstream address has no secondary DNS
C8_Witness ==
    /\ subnet # NoSubnet
    /\ Len(SuppliedDns) = 1
    /\ subnet.dns_primary = SuppliedDns[1]
    /\ subnet.dns_secondary = None

\* C9 (as claimed): the DHCP range of the created Subnet lies within the
\* network derived from the interface address, whatever range the broker gave
C9_DhcpRangeWithinNetwork ==
    subnet # NoSubnet =>
        /\ provisioning_network.network_address <= subnet.from
        /\ subnet.from <= subnet.to
        /\ subnet.to <= provisioning_network.broadcast_address

\* C11: if the broker output does not parse as an interface, or supplies no
\* upstream DNS address, the fixture fails before any remote object is created:
\* neither the Domain nor the Subnet exists afterwards.
C11_InvalidOutputCreatesNothing ==
    /\ (\/ broker_data_out.provisioning_addr_ipv4.prefixlen > AddrBits
        \/ Len(SuppliedDns) = 0) =>
          /\ domain = NoDomain
          /\ subnet = NoSubnet
          /\ npc \in {"idle", "start", "aborted"}
    /\ nerror.type \in {"ValueError", "IndexError"} =>
          /\ npc = "aborted"
          /\ domain = NoDomain
          /\ subnet = NoSubnet

\* a valid interface without any upstream DNS address: the pop raised
C11_Witness ==
    /\ npc = "aborted"
    /\ nerror.type = "IndexError"
    /\ broker_data_out.provisioning_addr_ipv4.prefixlen <= AddrBits
    /\ Len(SuppliedDns) = 0
    /\ domain = NoDomain

\* C12: the Subnet is created only after the Domain was created, it references
\* exactly that Domain, all its boot services and the Domain's DNS point at the
\* one capsule, and no Subnet is created when the Domain creation failed.
C12_SubnetAfterDomainSameCapsule ==
    /\ subnet # NoSubnet =>
          /\ domain # NoDomain
          /\ subnet.domain = <<domain.id>>
          /\ \A svc \in {subnet.dhcp, subnet.tftp, subnet.template, subnet.dns,
                         subnet.httpboot, subnet.discovery} : svc = domain.dns
          /\ subnet.remote_execution_proxy = <<domain.dns>>
          /\ domain.dns = CapsuleId
    /\ domain = NoDomain => subnet = NoSubnet
    /\ npc = "subnet" => domain # NoDomain

\* the Subnet exists and is bound to the created Domain
C12_Witness ==
    /\ npc = "done"
    /\ domain.id = DomainId
    /\ subnet.domain = <<DomainId>>
    /\ subnet.dhcp = CapsuleId

(***************************************************************************)
(* Further properties of the content pipeline                              *)
(***************************************************************************)
\* C14: an activation key is created only if the publish task reported
\* success; a publish task that ended otherwise fails the pipeline: the content
\* view is not re-read, no activation key and no bundle is produced.
C14_ActivationKeyOnlyAfterPublishSuccess ==
    /\ ak # "" => publish # 0 /\ remote_tasks[publish].result = "success"
    /\ cv_reread => remote_tasks[publish].result = "success"
    /\ (publish # 0 /\ remote_tasks[publish].result = "failure") =>
          /\ cpc \in {"waitpub", "aborted"}
          /\ ~cv_reread
          /\ ak = ""
          /\ bundle = NoBundle

\* the publish task failed, the wait returned it and line 117 ended the fixture
C14_Witness ==
    /\ cpc = "aborted"
    /\ publish # 0
    /\ remote_tasks[publish].result = "failure"
    /\ error.type = "AssertionError"
    /\ ak = ""

\* C15: if no operating system has the major and minor of the vendor kickstart
\* version, the pipeline fails before publishing: the publish task is never
\* issued and no activation key is created.
C15_NoOperatingSystemNoPublish ==
    (/\ rhel_xy # NoVersion
     /\ ~\E o \in operatingsystems : o.major = rhel_xy.major /\ o.minor = rhel_xy.minor)
        => /\ cpc = "aborted"
           /\ error.type = "AssertionError"
           /\ publish = 0
           /\ ak = ""
           /\ bundle = NoBundle

\* only operating systems of another minor exist: the assert of line 107 fails
C15_Witness ==
    /\ cpc = "aborted"
    /\ operatingsystems = OtherMinorOS
    /\ rhel_xy # NoVersion
    /\ error.repo = "Operating system was not found"
    /\ publish = 0

\* C17 (as claimed): once every sync succeeded, the version used to resolve the
\* operating system is the version of the kickstart repo enabled first, for
\* every version, given as a number or as a string
C17_VersionOfFirstKickstartRepo ==
    (/\ cpc \notin {"idle", "start", "enable", "wait", "poll", "resolve"}
     /\ ~AbortedInSyncStage)
        => rhel_xy = REPOS_kickstart[KickstartEnabled[1].name]

\* the vendor names of the requested version, as the claims state them
VendorNames ==
    IF rhel_ver.val <= 7
    THEN <<"rhel" \o ToString(rhel_ver.val)>>
    ELSE <<"rhel" \o ToString(rhel_ver.val) \o "_bos",
           "rhel" \o ToString(rhel_ver.val) \o "_aps">>

\* the repositories of the issued sync tasks, in issue order
SyncedRepos == [i \in 1..Len(tasks) |-> remote_tasks[tasks[i]].repo]

\* C18: the discovery flavor enables and syncs no vendor content repo and
\* issues 1 + n sync tasks (client, then one kickstart repo per vendor name);
\* every other flavor issues 1 + 2n, a kickstart sync followed by a content
\* sync for each vendor name in order.
C18_SyncTasksPerFlavor ==
    cpc \notin {"idle", "start", "enable"} =>
        IF provisioning_type = "discovery"
        THEN /\ Len(tasks) = 1 + Len(VendorNames)
             /\ SyncedRepos =
                   <<"client">> \o [i \in 1..Len(VendorNames) |-> "ks_" \o VendorNames[i]]
             /\ \A i \in 1..Len(enabled) : enabled[i].kind = "kickstart"
        ELSE /\ Len(tasks) = 1 + 2 * Len(VendorNames)
             /\ SyncedRepos =
                   <<"client">> \o
                   [i \in 1..(2 * Len(VendorNames)) |->
                       IF i % 2 = 1
                       THEN "ks_" \o VendorNames[(i + 1) \div 2]
                       ELSE VendorNames[i \div 2]]

\* version 9 in the discovery flavor: three sync tasks are issued
C18_Witness ==
    /\ cpc = "wait"
    /\ provisioning_type = "discovery"
    /\ rhel_ver.val = 9
    /\ Len(tasks) = 3

\* C19: when publish is issued, the repository list persisted on the content
\* view is the list of the repositories a sync task was issued for, in issue
\* order, the custom client repo first.
C19_PersistedRepositoriesAreSynced ==
    publish # 0 =>
        /\ cv_saved = SyncedRepos
        /\ cv_saved[1] = "client"
        /\ \A i \in 2..Len(cv_saved) : cv_saved[i] # "client"

\* publish was issued for a content view holding the client and four vendor repos
C19_Witness ==
    /\ cpc = "waitpub"
    /\ publish # 0
    /\ Len(cv_saved) = 5
    /\ cv_saved[1] = "client"

(***************************************************************************)
(* Properties of the discovery image preparation                           *)
(***************************************************************************)
\* C13: every disk image the preparation imported is removed exactly once by
\* the teardown on every exit path after the import succeeded, also when the
\* step that reconfigures the host's boot fails; none is left behind.
C13_ImportedImageRemovedOnce ==
    (hpc = "ended" /\ image_imports = 1 /\ derror.step # "remove")
        => image_removals = 1

PreparationOrder == <<"remaster", "extract", "import", "configure">>

\* the output of the remaster command holds the stem followed by a suffix
HasFdiMatch ==
    \E i \in DOMAIN remaster_result.stdout :
        /\ remaster_result.stdout[i].stem
        /\ remaster_result.stdout[i].suffix # ""

C20_TeardownOnlyRemovesImage ==
    /\ [](dpc = "yielded" =>
            /\ checked_out = {1}
            /\ releases = <<0>>
            /\ dhcp_restarts = 0)
    /\ [](image_removals = 1 => boot = "pxeless_pre")
    /\ [][(dpc = "yielded" /\ dpc' # "yielded") =>
            /\ boot' = boot
            /\ checked_out' = checked_out
            /\ releases' = releases
            /\ blank' = blank
            /\ dhcp_restarts' = dhcp_restarts
            /\ hpc' = hpc]_vars

\* the image is removed, the host still checked out and booting from it
C20_Witness ==
    /\ image_removals = 1
    /\ hpc = "teardown"
    /\ test_outcome = "raised"
    /\ boot = "pxeless_pre"
    /\ checked_out = {1}
    /\ dhcp_restarts = 0

(***************************************************************************)
(* Properties of the hosts' blank flag                                     *)
(***************************************************************************)
\* a step of the test body, which runs between the yield and its resumption
TestStep == hpc = "test" /\ Yielded(dpc)

C22_HostGroupOnlyOverDependencies ==
    /\ (npc = "aborted" \/ cpc = "aborted") => hostgroup = NoHostGroup
    /\ gpc = "created" <=> hostgroup # NoHostGroup
    /\ hostgroup # NoHostGroup =>
          /\ npc = "done" /\ cpc = "done"
          /\ domain # NoDomain /\ subnet # NoSubnet
          /\ publish # 0 /\ remote_tasks[publish].result = "success"
          /\ bundle.cv # "" /\ bundle.os # "" /\ bundle.ksrepo # "" /\ bundle.ak # ""
          /\ hostgroup.domain = domain
          /\ hostgroup.subnet = subnet
          /\ hostgroup.content_view = bundle.cv
          /\ hostgroup.operatingsystem = bundle.os
          /\ hostgroup.kickstart_repository = bundle.ksrepo
          /\ Len(hostgroup.group_parameters_attributes) = 2
          /\ hostgroup.group_parameters_attributes[1] =
                [name |-> "remote_execution_ssh_keys", parameter_type |-> "string",
                 value |-> "host_ssh_key_pub"]
          /\ hostgroup.group_parameters_attributes[2] =
                [name |-> "kt_activation_keys", parameter_type |-> "string",
                 value |-> ak]

\* a host group over a network and the content of RHEL 9
C22_Witness ==
    /\ gpc = "created"
    /\ rhel_ver.val = 9
    /\ hostgroup.domain.id = DomainId
    /\ hostgroup.kickstart_repository = "ks_rhel9_bos"
    /\ hostgroup.group_parameters_attributes[2].value = "ak"

====
